---------------------------- MODULE Spec2Model ----------------------------
(***************************************************************************)
(* A model of the BGCFlow command line wrapper (src/src/bgcflow/bgcflow.py):*)
(*   - the documentation block extractor shared by get_all_rules and       *)
(*     get_all_workflows (SpecExtract),                                    *)
(*   - the two catalogue handlers get_all_rules / get_all_workflows        *)
(*     (SpecScan),                                                         *)
(*   - snakemake_wrapper with its Panoptes supervision (SpecRun).          *)
(*                                                                         *)
(* Text is modelled as a sequence of atoms.  The atoms "#", "%" and "\n"   *)
(* are single characters; every other atom is a run of characters that     *)
(* holds none of these three.  A line is the sequence of its atoms, a file *)
(* the sequence of its lines, a path the sequence of its segments.         *)
(***************************************************************************)
EXTENDS Integers, Sequences, FiniteSets, TLC

VARIABLES
    pc,          \* position of the running handler
    exc,         \* the exception that escaped the handler, "none" if none did
    \* ---- block extraction (one file, both loops)
    file,        \* the lines of the file being read
    doc_rules,   \* doc_s of get_all_rules once the file is consumed
    doc_wf,      \* doc_s of get_all_workflows once the file is consumed
    \* ---- get_all_rules / get_all_workflows
    cmd,         \* "rules" or "workflows"
    rootIsDir,   \* rule_path.is_dir() / wf_path.is_dir()
    listing,     \* the entries under the scan root, in traversal order
    todo,        \* what the glob yielded and the for loop has not reached yet
    data,        \* the dict data: identifier -> entry
    order,       \* the insertion order of data's keys
    opened,      \* the directory entries the handler has opened
    kwargs,      \* describe / cite / config
    output,      \* what the handler has printed
    \* ---- snakemake_wrapper
    rk,          \* kwargs of snakemake_wrapper
    cpu_count,   \* multiprocessing.cpu_count()
    existing,    \* the paths p with p.is_file()
    p,           \* the str "Empty process catcher" or the Popen handle
    spawned,     \* number of Panoptes processes started by this call
    killed,      \* p.kill() was called
    firstCheck,  \* outcome of the initial service-info request
    requests,    \* service-info requests issued by the connect loop
    sleeps,      \* time.sleep(1) calls of the connect loop
    tries,       \* iterations of the connect loop completed
    ctr,         \* the retry counter echoed by the connect loop
    connected,   \* the connect loop saw status "running" and broke out
    snakefile,   \* the resolved Snakefile path
    checked,     \* the is_file() assertion on snakefile passed
    calls,       \* subprocess.call(snakemake_command) invocations
    coresUsed    \* the value given to snakemake's -c

vars == << pc, exc, file, doc_rules, doc_wf, cmd, rootIsDir, listing, todo, data,
           order, opened, kwargs, output, rk, cpu_count, existing, p, spawned,
           killed, firstCheck, requests, sleeps, tries, ctr, connected,
           snakefile, checked, calls, coresUsed >>

extractVars == << file, doc_rules, doc_wf >>
scanVars == << cmd, rootIsDir, listing, todo, data, order, opened, kwargs, output >>
runVars == << rk, cpu_count, existing, p, spawned, killed, firstCheck, requests,
              sleeps, tries, ctr, connected, snakefile, checked, calls, coresUsed >>

\* The empty dict / the empty mapping.
EmptyMap == [x \in {} |-> x]

\* p = "Empty process catcher": p holds a str until Popen returns a handle.
EmptyProcessCatcher == [kind |-> "str", port |-> 0]

\* Sequences over S of length at most n.
SeqUpTo(S, n) == UNION { [1..k -> S] : k \in 0..n }

----------------------------------------------------------------------------
(***************************************************************************)
(* Block extraction: the `for line in f` loops of both handlers.           *)
(***************************************************************************)

\* str.startswith(prefix)
StartsWith(line, prefix) ==
    /\ Len(line) >= Len(prefix)
    /\ \A i \in 1..Len(prefix) : line[i] = prefix[i]

\* line[1:]
StripFirst(line) == IF line = <<>> THEN <<>> ELSE Tail(line)

\* A plausible slip: the '#' of a captured line is kept.
RulesAppendKeepHash(doc, line) == doc \o line

\* doc_s = doc_s + line[1:]   (get_all_rules)
RulesAppend(doc, line) == doc \o StripFirst(line)

\* One iteration of the loop of get_all_rules; st = [parse, doc_s].
RulesLineStep(st, line) ==
    IF StartsWith(line, <<"#", "%">>)
    THEN [parse |-> ~st.parse, doc_s |-> st.doc_s]
    ELSE IF st.parse
         THEN IF StartsWith(line, <<"#">>)
              THEN [parse |-> st.parse, doc_s |-> RulesAppend(st.doc_s, line)]
              ELSE st
         ELSE st

\* One iteration of the loop of get_all_workflows.
WorkflowsLineStep(st, line) ==
    IF StartsWith(line, <<"#", "%">>)
    THEN [parse |-> ~st.parse, doc_s |-> st.doc_s]
    ELSE IF st.parse
         THEN IF StartsWith(line, <<"#">>)
              THEN [parse |-> st.parse, doc_s |-> st.doc_s \o StripFirst(line)]
              ELSE st
         ELSE st

RECURSIVE RulesLoop(_, _)
RulesLoop(st, lines) ==
    IF lines = <<>> THEN st
    ELSE RulesLoop(RulesLineStep(st, Head(lines)), Tail(lines))

RECURSIVE WorkflowsLoop(_, _)
WorkflowsLoop(st, lines) ==
    IF lines = <<>> THEN st
    ELSE WorkflowsLoop(WorkflowsLineStep(st, Head(lines)), Tail(lines))

\* doc_s = ""; parse = False; for line in f: ...   (get_all_rules)
ExtractRules(lines) == RulesLoop([parse |-> FALSE, doc_s |-> <<>>], lines).doc_s

\* the same block of get_all_workflows
ExtractWorkflows(lines) ==
    WorkflowsLoop([parse |-> FALSE, doc_s |-> <<>>], lines).doc_s

\* Longest file, in lines, SpecExtract reads.
MaxLines == 4

\* The lines SpecExtract builds its files from: markers (bare and
\* with trailing text), comment lines, a bare '#', code lines, lines that
\* hold the marker but do not start with it, an empty line, and a last line
\* without its newline.
ExtractLines ==
    { <<"#", "%", "\n">>, <<"#", "%", "x", "\n">>, <<"#", "x", "\n">>,
      <<"#", "y">>, <<"#", "\n">>, <<"x", "\n">>, <<"%", "#", "\n">>,
      <<"x", "#", "%", "\n">>, <<"#", "#", "%", "\n">>, <<"\n">> }

ExtractFiles == SeqUpTo(ExtractLines, MaxLines)

InitExtract ==
    /\ pc = "open"
    /\ exc = "none"
    /\ file \in ExtractFiles
    /\ doc_rules = <<>>
    /\ doc_wf = <<>>
    /\ cmd = "none" /\ rootIsDir = FALSE /\ listing = <<>> /\ todo = <<>>
    /\ data = EmptyMap /\ order = <<>> /\ opened = {} /\ kwargs = EmptyMap
    /\ output = <<>>
    /\ rk = EmptyMap /\ cpu_count = 0 /\ existing = {} /\ p = EmptyProcessCatcher
    /\ spawned = 0 /\ killed = FALSE /\ firstCheck = "none" /\ requests = 0
    /\ sleeps = 0 /\ tries = 0 /\ ctr = 0 /\ connected = FALSE
    /\ snakefile = <<>> /\ checked = FALSE /\ calls = 0 /\ coresUsed = 0

\* Both handlers read the file to its end.
ReadFile ==
    /\ pc = "open"
    /\ doc_rules' = ExtractRules(file)
    /\ doc_wf' = ExtractWorkflows(file)
    /\ pc' = "eof"
    /\ UNCHANGED << exc, file >>
    /\ UNCHANGED scanVars
    /\ UNCHANGED runVars

NextExtract == ReadFile

SpecExtract == InitExtract /\ [][NextExtract]_vars

\* A marker line: one that starts with "#%".
IsMarker(line) == Len(line) >= 2 /\ line[1] = "#" /\ line[2] = "%"

MarkersBefore(f, i) == Cardinality({ j \in 1..(i - 1) : IsMarker(f[j]) })

\* Line i of f is a captured line in the sense of the block definition.
Emitted(f, i) ==
    /\ ~IsMarker(f[i])
    /\ Len(f[i]) >= 1 /\ f[i][1] = "#"
    /\ MarkersBefore(f, i) % 2 = 1

RECURSIVE BlockFrom(_, _)
BlockFrom(f, i) ==
    IF i > Len(f) THEN <<>>
    ELSE (IF Emitted(f, i) THEN SubSeq(f[i], 2, Len(f[i])) ELSE <<>>)
         \o BlockFrom(f, i + 1)

\* C1: once a file is consumed, the buffer is the in-order concatenation of
\* line[1:] over exactly the lines that are no marker, start with '#' and have
\* an odd number of marker lines before them (so no markers gives the empty
\* buffer, and an unclosed block gives what was captured up to EOF), and
\* get_all_workflows computes the same buffer as get_all_rules.
C1_BlockExtraction ==
    pc = "eof" =>
        /\ doc_rules = BlockFrom(file, 1)
        /\ doc_wf = doc_rules
        /\ exc = "none"

\* C1 witness: a consumed file with one marker only (capture open at EOF), a
\* code line skipped inside the block and a comment line captured after it.
C1_Witness ==
    /\ pc = "eof"
    /\ Len(file) = 3
    /\ IsMarker(file[1])
    /\ file[2] = <<"x", "\n">>
    /\ file[3] = <<"#", "y">>
    /\ doc_rules = <<"y">>

----------------------------------------------------------------------------
(***************************************************************************)
(* The catalogue handlers get_all_rules and get_all_workflows.             *)
(*                                                                         *)
(* A directory entry is [dir, name, isfile, lines]: dir the segments of    *)
(* its parent relative to the scan root, name the atoms of its file name   *)
(* (a first atom, then one atom per dot, each starting with its dot),      *)
(* lines its content.                                                      *)
(***************************************************************************)

\* PurePath.suffix: the part of the name from its last dot on, unless that
\* dot is the first character of the name.
Suffix(name) == IF Len(name) > 1 THEN <<name[Len(name)]>> ELSE <<>>

\* PurePath.stem: the name without its suffix.
Stem(name) == SubSeq(name, 1, Len(name) - Len(Suffix(name)))

\* The pattern "*.smk" of rule_path.rglob.
MatchesSmk(name) == name # <<>> /\ name[Len(name)] = ".smk"

\* str() of a relative path: its segments joined with "/".
RECURSIVE JoinSlash(_)
JoinSlash(segs) ==
    IF segs = <<>> THEN <<>>
    ELSE IF Len(segs) = 1 THEN segs
    ELSE <<Head(segs), "/">> \o JoinSlash(Tail(segs))

\* rule_dir = str(rel_rule_file.parents[0]): "." for a file in the root.
RuleDir(e) == IF e.dir = <<>> THEN <<".">> ELSE JoinSlash(e.dir)

\* A plausible slip: the identifier is the stem alone.
RuleNameStemOnly(e) == Stem(e.name)

\* rule_name of get_all_rules.
RuleName(e) ==
    IF RuleDir(e) = <<".">> THEN Stem(e.name)
    ELSE RuleDir(e) \o <<"/">> \o Stem(e.name)

\* name = str(wf_file.stem) of get_all_workflows.
WorkflowName(e) == Stem(e.name)

\* wf_file is skipped: (not wf_file.is_file()) or (wf_file.suffix != "").
WorkflowSkipped(e) == (~e.isfile) \/ (Suffix(e.name) # <<>>)

IsRuleFile(e) == e.isfile /\ MatchesSmk(e.name)
IsWorkflowEntry(e) == e.dir = <<>>

\* rule_path.rglob("*.smk"): the matching files at any depth.
RGlobSmk(tree) == SelectSeq(tree, IsRuleFile)

\* wf_path.glob("*"): every direct child, files and directories alike.
GlobAll(tree) == SelectSeq(tree, IsWorkflowEntry)

(***************************************************************************)
(* yaml.safe_load on the buffers the model's files produce.  A value is    *)
(* [kind, fields]: kind the Python type of the result ("dict", "NoneType", *)
(* "str", "list") or "error" for a yaml.YAMLError, fields the items of a   *)
(* dict.                                                                   *)
(***************************************************************************)
YamlPairs == { "description: d1", "references: [r1, r2]", "schema: s1" }
YamlItems == { "- item" }
YamlPlain == { "just text" }
YamlMalformed == { "{" }

YamlKey(tok) ==
    CASE tok = "description: d1" -> "description"
      [] tok = "references: [r1, r2]" -> "references"
      [] tok = "schema: s1" -> "schema"

YamlValue(tok) ==
    CASE tok = "description: d1" -> "d1"
      [] tok = "references: [r1, r2]" -> <<"r1", "r2">>
      [] tok = "schema: s1" -> "s1"

NotNewline(a) == a # "\n"

YamlDict(toks) ==
    [k \in { YamlKey(toks[i]) : i \in 1..Len(toks) } |->
        LET last == CHOOSE i \in 1..Len(toks) :
                        /\ YamlKey(toks[i]) = k
                        /\ \A j \in 1..Len(toks) : YamlKey(toks[j]) = k => j <= i
        IN  YamlValue(toks[last])]

YamlLoad(doc) ==
    LET toks == SelectSeq(doc, NotNewline)
        all(S) == \A i \in 1..Len(toks) : toks[i] \in S
    IN  IF \E i \in 1..Len(toks) : toks[i] \in YamlMalformed
        THEN [kind |-> "error", fields |-> EmptyMap]
        ELSE IF toks = <<>> THEN [kind |-> "NoneType", fields |-> EmptyMap]
        ELSE IF all(YamlPairs) THEN [kind |-> "dict", fields |-> YamlDict(toks)]
        ELSE IF all(YamlItems) THEN [kind |-> "list", fields |-> EmptyMap]
        ELSE IF all(YamlPlain) THEN [kind |-> "str", fields |-> EmptyMap]
        ELSE [kind |-> "error", fields |-> EmptyMap]

\* rule_data = {}
EmptyDict == [kind |-> "dict", fields |-> EmptyMap]

\* if doc_s: rule_data = yaml.safe_load(doc_s) else: rule_data = {}
RuleData(doc_s) == IF doc_s # <<>> THEN YamlLoad(doc_s) ELSE EmptyDict

\* the same lines of get_all_workflows
WorkflowData(doc_s) == IF doc_s # <<>> THEN YamlLoad(doc_s) ELSE EmptyDict

\* data[key] = value on a dict that keeps insertion order.
DictSet(d, key, value) ==
    [k \in DOMAIN d \cup {key} |-> IF k = key THEN value ELSE d[k]]

OrderSet(ord, d, key) == IF key \in DOMAIN d THEN ord ELSE Append(ord, key)

\* The lines of the model's rule and workflow files.
LMark == <<"#", "%", "\n">>
LDesc == <<"#", "description: d1", "\n">>
LRefs == <<"#", "references: [r1, r2]", "\n">>
LSchema == <<"#", "schema: s1", "\n">>
LText == <<"#", "just text", "\n">>
LBad == <<"#", "{", "\n">>
LBlank == <<"#", "\n">>
LItem == <<"#", "- item", "\n">>
LCode == <<"rule alpha:", "\n">>

FNone == <<LCode>>
FFull == <<LMark, LDesc, LRefs, LMark, LCode>>
FDescOpen == <<LCode, LMark, LDesc>>
FRefs == <<LMark, LCode, LRefs, LMark>>
FSchema == <<LMark, LDesc, LSchema, LMark>>
FBad == <<LMark, LBad, LMark>>
FText == <<LMark, LText, LMark>>
FBlank == <<LMark, LBlank, LMark>>
FList == <<LMark, LItem, LMark>>

RuleContents == { FNone, FFull, FDescOpen, FRefs, FBad, FText, FBlank, FList }
WorkflowContents == { FNone, FFull, FRefs, FSchema, FBad, FText }

\* Most directory entries under one scan root.
MaxFiles == 3

RuleEntries ==
    { [dir |-> d, name |-> <<"foo", ".smk">>, isfile |-> TRUE, lines |-> c] :
        d \in { <<>>, <<"a">>, <<"b">> }, c \in RuleContents }
    \cup { [dir |-> <<"a", "b">>, name |-> <<"bar", ".x", ".smk">>, isfile |-> TRUE,
             lines |-> FDescOpen],
           [dir |-> <<>>, name |-> <<"foo", ".txt">>, isfile |-> TRUE, lines |-> FFull] }

WorkflowEntries ==
    { [dir |-> <<>>, name |-> <<n>>, isfile |-> TRUE, lines |-> c] :
        n \in { "Snakefile", "BGC" }, c \in WorkflowContents }
    \cup { [dir |-> <<>>, name |-> <<"notes", ".txt">>, isfile |-> TRUE, lines |-> FFull],
           [dir |-> <<>>, name |-> <<"rules">>, isfile |-> FALSE, lines |-> <<>>] }

PathOf(e) == <<e.dir, e.name>>

\* The trees under a scan root: no two entries share a path.
Trees(entries) ==
    { t \in SeqUpTo(entries, MaxFiles) :
        \A i, j \in 1..Len(t) : i # j => PathOf(t[i]) # PathOf(t[j]) }

\* An option of the command line: None, or a string.
None == [isStr |-> FALSE, v |-> <<>>]
Str(v) == [isStr |-> TRUE, v |-> v]

RuleArgs == { None, Str(<<"foo">>), Str(<<"a", "/", "foo">>), Str(<<"zzz">>) }
WorkflowArgs == { None, Str(<<"Snakefile">>), Str(<<"zzz">>) }

InitScan ==
    /\ pc = "start"
    /\ exc = "none"
    /\ file = <<>> /\ doc_rules = <<>> /\ doc_wf = <<>>
    /\ cmd \in { "rules", "workflows" }
    /\ rootIsDir \in BOOLEAN
    /\ listing \in IF ~rootIsDir THEN { <<>> }
                   ELSE IF cmd = "rules" THEN Trees(RuleEntries)
                   ELSE Trees(WorkflowEntries)
    /\ todo = <<>>
    /\ data = EmptyMap /\ order = <<>> /\ opened = {} /\ kwargs = EmptyMap
    /\ output = <<>>
    /\ rk = EmptyMap /\ cpu_count = 0 /\ existing = {} /\ p = EmptyProcessCatcher
    /\ spawned = 0 /\ killed = FALSE /\ firstCheck = "none" /\ requests = 0
    /\ sleeps = 0 /\ tries = 0 /\ ctr = 0 /\ connected = FALSE
    /\ snakefile = <<>> /\ checked = FALSE /\ calls = 0 /\ coresUsed = 0

ArgsOf(c) ==
    IF c = "rules" THEN [describe : RuleArgs, cite : RuleArgs]
    ELSE [describe : WorkflowArgs, config : WorkflowArgs]

NoDirMessage == <<"ERROR: Cannot find BGCFlow directory.", <<>>>>

\* A plausible slip: the scan is entered without the is_dir() test.
EnterScanUnguarded ==
    /\ pc = "start"
    /\ todo' = IF cmd = "rules" THEN RGlobSmk(listing) ELSE GlobAll(listing)
    /\ data' = EmptyMap
    /\ pc' = "scan"
    /\ UNCHANGED << exc, cmd, rootIsDir, listing, order, opened, kwargs, output >>
    /\ UNCHANGED extractVars
    /\ UNCHANGED runVars

\* if rule_path.is_dir(): data = {}; for rule_file in rule_path.rglob(...)
\* if wf_path.is_dir():   data = {}; for wf_file in wf_path.glob("*")
EnterScan ==
    /\ pc = "start"
    /\ rootIsDir
    /\ todo' = IF cmd = "rules" THEN RGlobSmk(listing) ELSE GlobAll(listing)
    /\ data' = EmptyMap
    /\ pc' = "scan"
    /\ UNCHANGED << exc, cmd, rootIsDir, listing, order, opened, kwargs, output >>
    /\ UNCHANGED extractVars
    /\ UNCHANGED runVars

\* else: print("ERROR: Cannot find BGCFlow directory. ..."); return
ReportNoDirectory ==
    /\ pc = "start"
    /\ ~rootIsDir
    /\ \E kw \in ArgsOf(cmd) : kwargs' = kw
    /\ output' = <<NoDirMessage>>
    /\ pc' = "done"
    /\ UNCHANGED << exc, cmd, rootIsDir, listing, todo, data, order, opened >>
    /\ UNCHANGED extractVars
    /\ UNCHANGED runVars

\* One iteration of `for rule_file in rule_path.rglob("*.smk")`.
ScanRuleFile ==
    /\ pc = "scan" /\ cmd = "rules" /\ todo # <<>>
    /\ LET rule_file == Head(todo)
           rule_name == RuleName(rule_file)
           rule_data == RuleData(ExtractRules(rule_file.lines))
       IN  /\ opened' = opened \cup { PathOf(rule_file) }
           /\ IF rule_data.kind = "error"
              THEN /\ exc' = "YAMLError"
                   /\ pc' = "crashed"
                   /\ UNCHANGED << todo, data, order >>
              ELSE /\ data' = DictSet(data, rule_name, rule_data)
                   /\ order' = OrderSet(order, data, rule_name)
                   /\ todo' = Tail(todo)
                   /\ UNCHANGED << exc, pc >>
    /\ UNCHANGED << cmd, rootIsDir, listing, kwargs, output >>
    /\ UNCHANGED extractVars
    /\ UNCHANGED runVars

\* One iteration of `for wf_file in wf_path.glob("*")`.
ScanWorkflowFile ==
    /\ pc = "scan" /\ cmd = "workflows" /\ todo # <<>>
    /\ LET wf_file == Head(todo)
           name == WorkflowName(wf_file)
           wf_data == WorkflowData(ExtractWorkflows(wf_file.lines))
       IN  IF WorkflowSkipped(wf_file)
           THEN /\ todo' = Tail(todo)
                /\ UNCHANGED << exc, pc, data, order, opened >>
           ELSE /\ opened' = opened \cup { PathOf(wf_file) }
                /\ IF wf_data.kind = "error"
                   THEN /\ exc' = "YAMLError"
                        /\ pc' = "crashed"
                        /\ UNCHANGED << todo, data, order >>
                   ELSE /\ data' = DictSet(data, name, wf_data)
                        /\ order' = OrderSet(order, data, name)
                        /\ todo' = Tail(todo)
                        /\ UNCHANGED << exc, pc >>
    /\ UNCHANGED << cmd, rootIsDir, listing, kwargs, output >>
    /\ UNCHANGED extractVars
    /\ UNCHANGED runVars


(***************************************************************************)
(* The try block after the scan.  A stage yields [out, err]: the lines it  *)
(* printed and the exception it raised ("none" if it ran to its end).  A   *)
(* printed line is <<text, value>>.                                        *)
(***************************************************************************)

\* The exception of d[id][key]: KeyError for a missing id or key, TypeError
\* when d[id] is None, a str or a list.
SubscriptError(d, id, key) ==
    IF id \notin DOMAIN d THEN "KeyError"
    ELSE IF d[id].kind # "dict" THEN "TypeError"
    ELSE IF key \notin DOMAIN d[id].fields THEN "KeyError"
    ELSE "none"

Skip == [out |-> <<>>, err |-> "none"]

\* Sequential composition: the second stage runs if the first raised nothing.
Then(r1, r2) ==
    IF r1.err # "none" THEN r1
    ELSE [out |-> r1.out \o r2.out, err |-> r2.err]

\* if type(kwargs["describe"]) is str: print header; print data[..]['description']
DescribeStage(d, kw, header) ==
    IF ~kw.describe.isStr THEN Skip
    ELSE LET id == kw.describe.v
             err == SubscriptError(d, id, "description")
         IN  [out |-> << <<header, id>> >> \o
                      (IF err = "none"
                       THEN << <<" - ", d[id].fields["description"]>> >>
                       ELSE <<>>),
              err |-> err]

\* if type(kwargs["cite"]) is str: print header; print each reference
CiteStage(d, kw) ==
    IF ~kw.cite.isStr THEN Skip
    ELSE LET id == kw.cite.v
             err == SubscriptError(d, id, "references")
         IN  [out |-> << <<"Citations for", id>> >> \o
                      (IF err = "none"
                       THEN [i \in 1..Len(d[id].fields["references"]) |->
                                <<"-", d[id].fields["references"][i]>>]
                       ELSE <<>>),
              err |-> err]

\* if type(kwargs["config"]) is str: the schema lookup comes before the
\* header; open(schema_file) raises FileNotFoundError for a missing file.
ConfigStage(d, kw, schemaIsFile) ==
    IF ~kw.config.isStr THEN Skip
    ELSE LET id == kw.config.v
             err == SubscriptError(d, id, "schema")
         IN  IF err # "none" THEN [out |-> <<>>, err |-> err]
             ELSE IF ~schemaIsFile
             THEN [out |-> << <<"Config schema for", <<id, d[id].fields["schema"]>> >> >>,
                   err |-> "FileNotFoundError"]
             ELSE [out |-> << <<"Config schema for", <<id, d[id].fields["schema"]>> >>,
                              <<"schema file content", d[id].fields["schema"]>> >>,
                   err |-> "none"]

\* for item, values in data.items(): descr = values.get("description", None)
\* AttributeError when values is None, a str or a list.
RECURSIVE ListItems(_, _)
ListItems(d, ord) ==
    IF ord = <<>> THEN Skip
    ELSE LET item == Head(ord)
             values == d[item]
         IN  IF values.kind # "dict" THEN [out |-> <<>>, err |-> "AttributeError"]
             ELSE Then([out |-> << <<" - ", item>> >> \o
                                (IF "description" \in DOMAIN values.fields
                                 THEN << <<"     ", values.fields["description"]>> >>
                                 ELSE <<>>),
                        err |-> "none"],
                       ListItems(d, Tail(ord)))

ListStage(d, ord, header) ==
    Then([out |-> << <<header, <<>>>> >>, err |-> "none"], ListItems(d, ord))

\* [r for r in [a, b] if type(r) is str]
StrArgs(a, b) ==
    (IF a.isStr THEN <<a.v>> ELSE <<>>) \o (IF b.isStr THEN <<b.v>> ELSE <<>>)

\* except KeyError: print the "Cannot find" line; any other exception escapes.
ExceptKeyError(r, message, names) ==
    IF r.err = "KeyError"
    THEN [out |-> r.out \o << <<message, names>> >>, exc |-> "none"]
    ELSE [out |-> r.out, exc |-> r.err]

CannotFindRule == "ERROR: Cannot find rule"
CannotFindWorkflow == "ERROR: Cannot find workflow"

\* The try/except of get_all_rules.
RulesQuery(d, ord, kw) ==
    ExceptKeyError(
        Then(Then(DescribeStage(d, kw, "Description for"), CiteStage(d, kw)),
             IF (~kw.describe.isStr) /\ (~kw.cite.isStr)
             THEN ListStage(d, ord, "Printing available rules:")
             ELSE Skip),
        CannotFindRule, StrArgs(kw.describe, kw.cite))

\* The try/except of get_all_workflows.
WorkflowsQuery(d, ord, kw, schemaIsFile) ==
    ExceptKeyError(
        Then(Then(DescribeStage(d, kw, "Description for"),
                  ConfigStage(d, kw, schemaIsFile)),
             IF (~kw.describe.isStr) /\ (~kw.config.isStr)
             THEN ListStage(d, ord, "Printing available workflows:")
             ELSE Skip),
        CannotFindWorkflow, StrArgs(kw.describe, kw.config))

\* get_all_rules after its for loop.  The handler first reads describe and
\* cite here, so this is where the model draws them.
QueryRules ==
    /\ pc = "scan" /\ cmd = "rules" /\ todo = <<>>
    /\ \E kw \in ArgsOf("rules") :
        LET r == RulesQuery(data, order, kw)
        IN  /\ kwargs' = kw
            /\ output' = r.out
            /\ exc' = r.exc
            /\ pc' = IF r.exc = "none" THEN "done" ELSE "crashed"
    /\ UNCHANGED << cmd, rootIsDir, listing, todo, data, order, opened >>
    /\ UNCHANGED extractVars
    /\ UNCHANGED runVars

\* get_all_workflows after its for loop.
QueryWorkflows ==
    /\ pc = "scan" /\ cmd = "workflows" /\ todo = <<>>
    /\ \E kw \in ArgsOf("workflows"), schemaIsFile \in BOOLEAN :
        LET r == WorkflowsQuery(data, order, kw, schemaIsFile)
        IN  /\ kwargs' = kw
            /\ output' = r.out
            /\ exc' = r.exc
            /\ pc' = IF r.exc = "none" THEN "done" ELSE "crashed"
    /\ UNCHANGED << cmd, rootIsDir, listing, todo, data, order, opened >>
    /\ UNCHANGED extractVars
    /\ UNCHANGED runVars

NextScan ==
    \/ EnterScan
    \/ ReportNoDirectory
    \/ ScanRuleFile
    \/ ScanWorkflowFile
    \/ QueryRules
    \/ QueryWorkflows

SpecScan == InitScan /\ [][NextScan]_vars


\* What the handler's glob yields for the tree it was given.
Globbed == IF cmd = "rules" THEN RGlobSmk(listing) ELSE GlobAll(listing)

\* The entries the for loop parses: for workflows, those it does not skip.
Parsed(e) == IF cmd = "rules" THEN TRUE ELSE ~WorkflowSkipped(e)

IdOf(e) == IF cmd = "rules" THEN RuleName(e) ELSE WorkflowName(e)

BufferOf(e) ==
    IF cmd = "rules" THEN ExtractRules(e.lines) ELSE ExtractWorkflows(e.lines)

\* The buffer of e is not empty and is not valid YAML.
Malformed(e) == BufferOf(e) # <<>> /\ YamlLoad(BufferOf(e)).kind = "error"

HandlerEnded == pc \in { "done", "crashed" }

\* The for loop ran to its end.
ScanCompleted ==
    /\ rootIsDir
    /\ pc \in { "scan", "done", "crashed" }
    /\ todo = <<>>
    /\ exc # "YAMLError"

\* The try block after the scan was run.
QueryEnded == HandlerEnded /\ ScanCompleted

\* C2: when a file of the scanned directory has a non-empty buffer that is
\* not valid structured data, the failure stays with that file: the handler
\* ends without the parse error escaping, every other file the scan parses
\* has its entry, and the query has printed its answer.
C2_ParseErrorIsolation ==
    (HandlerEnded /\ rootIsDir
        /\ \E i \in 1..Len(Globbed) : Parsed(Globbed[i]) /\ Malformed(Globbed[i]))
    => /\ exc # "YAMLError"
       /\ \A i \in 1..Len(Globbed) :
            (Parsed(Globbed[i]) /\ ~Malformed(Globbed[i]))
                => IdOf(Globbed[i]) \in DOMAIN data
       /\ output # <<>>

\* The entry of id has the field key.
HasField(id, key) ==
    /\ id \in DOMAIN data
    /\ data[id].kind = "dict"
    /\ key \in DOMAIN data[id].fields

\* The last line printed is the "Cannot find ..." report.
NotFoundReported ==
    /\ output # <<>>
    /\ output[Len(output)][1] \in { CannotFindRule, CannotFindWorkflow }

Printed(text, value) == \E i \in 1..Len(output) : output[i] = <<text, value>>

\* C3: after a completed scan, describe(id) for an absent id and for an id
\* whose entry lacks 'description' end alike, in the "Cannot find" report and
\* with no exception escaping; citations(id) does the same for 'references';
\* and when id and field are there the field is printed and no error reported.
C3_NotFoundUniform ==
    /\ (QueryEnded /\ kwargs.describe.isStr
            /\ (cmd = "workflows" => ~kwargs.config.isStr)
            /\ (cmd = "rules" => ~kwargs.cite.isStr))
       => IF HasField(kwargs.describe.v, "description")
          THEN /\ exc = "none"
               /\ ~NotFoundReported
               /\ Printed(" - ", data[kwargs.describe.v].fields["description"])
          ELSE exc = "none" /\ NotFoundReported
    /\ (QueryEnded /\ cmd = "rules" /\ kwargs.cite.isStr /\ ~kwargs.describe.isStr)
       => IF HasField(kwargs.cite.v, "references")
          THEN /\ exc = "none"
               /\ ~NotFoundReported
               /\ \A i \in 1..Len(data[kwargs.cite.v].fields["references"]) :
                    Printed("-", data[kwargs.cite.v].fields["references"][i])
          ELSE exc = "none" /\ NotFoundReported

\* C4: when a scan has run to its end every identifier of the mapping has a
\* mapping-valued entry, the empty mapping for an empty buffer, and the
\* listing reads the 'description' of every entry without failing.
C4_EntryShape ==
    ScanCompleted =>
        /\ \A id \in DOMAIN data : data[id].kind = "dict"
        /\ \A i \in 1..Len(Globbed) :
             (Parsed(Globbed[i]) /\ BufferOf(Globbed[i]) = <<>>
                /\ \A j \in (i + 1)..Len(Globbed) : IdOf(Globbed[j]) # IdOf(Globbed[i]))
             => data[IdOf(Globbed[i])] = EmptyDict
        /\ exc \notin { "AttributeError", "TypeError" }

\* The rule files the for loop has been through.
ScannedRules == SubSeq(RGlobSmk(listing), 1, Len(RGlobSmk(listing)) - Len(todo))

\* C5: two distinct rule files with the same stem in different subdirectories
\* get different identifiers, a file in the root gets '<stem>' and a file in a
\* subdirectory '<subdirectory_path>/<stem>' (a/foo.smk gives 'a/foo',
\* b/foo.smk gives 'b/foo'), and each keeps its own entry in the mapping.
C5_IdentifierInjective ==
    (cmd = "rules" /\ pc \in { "scan", "done", "crashed" }) =>
        LET S == ScannedRules
        IN  /\ \A i, j \in 1..Len(S) :
                 (i # j /\ Stem(S[i].name) = Stem(S[j].name) /\ S[i].dir # S[j].dir)
                 => /\ RuleName(S[i]) # RuleName(S[j])
                    /\ RuleName(S[i]) \in DOMAIN data
                    /\ data[RuleName(S[i])] = RuleData(ExtractRules(S[i].lines))
            /\ \A i \in 1..Len(S) :
                 /\ (S[i].dir = <<>> /\ S[i].name = <<"foo", ".smk">>)
                        => <<"foo">> \in DOMAIN data
                 /\ (S[i].dir = <<"a">> /\ S[i].name = <<"foo", ".smk">>)
                        => <<"a", "/", "foo">> \in DOMAIN data
                 /\ (S[i].dir = <<"b">> /\ S[i].name = <<"foo", ".smk">>)
                        => <<"b", "/", "foo">> \in DOMAIN data
                 /\ (S[i].dir = <<"a", "b">> /\ S[i].name = <<"bar", ".x", ".smk">>)
                        => <<"a", "/", "b", "/", "bar", ".x">> \in DOMAIN data
            /\ Cardinality(DOMAIN data) = Len(S)

\* C5 witness: a/foo.smk and b/foo.smk were both scanned, with different
\* blocks, and the mapping holds the two entries side by side.
C5_Witness ==
    /\ cmd = "rules" /\ pc = "done"
    /\ Len(ScannedRules) = 2
    /\ ScannedRules[1].dir = <<"a">> /\ ScannedRules[2].dir = <<"b">>
    /\ ScannedRules[1].lines = FFull /\ ScannedRules[2].lines = FNone
    /\ data[<<"a", "/", "foo">>].fields # EmptyMap
    /\ data[<<"b", "/", "foo">>] = EmptyDict

\* C6: when the scan root is no directory the handler prints the 'Cannot find
\* BGCFlow directory' error and returns: it never enters the scan, opens no
\* file, builds no entry, prints nothing else and no exception escapes,
\* whatever describe, cite and config are.
C6_DirectoryNotFound ==
    ~rootIsDir =>
        /\ pc \in { "start", "done" }
        /\ opened = {}
        /\ data = EmptyMap
        /\ exc = "none"
        /\ output = IF pc = "done" THEN <<NoDirMessage>> ELSE <<>>

\* C6 witness: the handler has returned from a missing scan root with a
\* describe argument given.
C6_Witness ==
    /\ ~rootIsDir /\ pc = "done" /\ cmd = "workflows"
    /\ kwargs.describe.isStr /\ kwargs.config.isStr
    /\ output = <<NoDirMessage>>

----------------------------------------------------------------------------
(***************************************************************************)
(* snakemake_wrapper.  A path and a workflow name are sequences of         *)
(* segments ("workflow/BGC" is <<"workflow", "BGC">>); --snakefile is      *)
(* documented as relative to the BGCFlow directory (cli.py), so joining    *)
(* it to bgcflow_dir appends its segments.  The flags dryrun, touch,       *)
(* unlock, until and profile only add words to the command line and are    *)
(* left out.                                                               *)
(***************************************************************************)

\* range(10) of the connect loop.
MaxTries == 10

\* Largest --cores value and largest CPU count tried.
MaxCores == 3
MaxCpu == 2

ShortNames ==
    { "Snakefile", "BGC", "Report", "Database", "Metabase", "lsabgc", "ppanggolin" }

\* The first list of snakemake_wrapper: "workflow/Snakefile", ...
LongForms == { <<"workflow", n>> : n \in ShortNames }

\* The second list: "Snakefile", "BGC", ...
ShortForms == { <<n>> : n \in ShortNames }

\* snakefile = bgcflow_dir / ...
Resolve(bgcflow_dir, workflow) ==
    IF workflow \in LongForms THEN bgcflow_dir \o workflow
    ELSE IF workflow \in ShortForms THEN bgcflow_dir \o <<"workflow">> \o workflow
    ELSE bgcflow_dir \o workflow

\* A plausible slip: the requested core count is passed on as it is.
CoresUnclamped(cores, available) == cores

\* if kwargs["cores"] > cpu_count(): kwargs["cores"] = cpu_count()
Cores(cores, available) == IF cores > available THEN available ELSE cores

\* The ":"-separated parts of --wms-monitor.
Addresses == { <<"http", "//127.0.0.1", "5000">>, <<"http", "//localhost">> }

\* int(s): defined on digit strings, ValueError otherwise.
IsDigits(s) == s \in { "5000" }
IntOf(s) == CASE s = "5000" -> 5000

\* What a service-info request can come to: requests raises a
\* RequestException (no connection, or a body that is no JSON), or the
\* service answers with status "running" or with another status.  The
\* answer of a service-info endpoint is taken to carry a "status" key.
Outcomes == { "RequestException", "running", "other" }

BgcflowDir == <<"bgcflow">>

Workflows ==
    LongForms \cup ShortForms \cup { <<"custom", "Snakefile">>, <<"BGCs">> }

\* The sets of regular files the model runs against: none, the seven
\* workflow files, those and a custom Snakefile, and a lone
\* bgcflow/Snakefile beside an empty workflow directory.
FileSystems ==
    { {},
      { BgcflowDir \o w : w \in LongForms },
      { BgcflowDir \o w : w \in LongForms \cup { <<"custom", "Snakefile">> } },
      { BgcflowDir \o <<"Snakefile">> } }

InitRun ==
    /\ pc = "start"
    /\ exc = "none"
    /\ file = <<>> /\ doc_rules = <<>> /\ doc_wf = <<>>
    /\ cmd = "run" /\ rootIsDir = FALSE /\ listing = <<>> /\ todo = <<>>
    /\ data = EmptyMap /\ order = <<>> /\ opened = {} /\ kwargs = EmptyMap
    /\ output = <<>>
    /\ rk \in [ monitor : BOOLEAN, wms_monitor : Addresses, workflow : Workflows,
                cores : 1..MaxCores, bgcflow_dir : { BgcflowDir } ]
    /\ cpu_count \in 1..MaxCpu
    /\ existing \in FileSystems
    /\ p = EmptyProcessCatcher
    /\ spawned = 0 /\ killed = FALSE /\ firstCheck = "none" /\ requests = 0
    /\ sleeps = 0 /\ tries = 0 /\ ctr = 1 /\ connected = FALSE
    /\ snakefile = <<>> /\ checked = FALSE /\ calls = 0 /\ coresUsed = 0

\* if kwargs["monitor"]: port = int(kwargs["wms_monitor"].split(":")[-1])
Begin ==
    /\ pc = "start"
    /\ IF rk.monitor
       THEN IF IsDigits(rk.wms_monitor[Len(rk.wms_monitor)])
            THEN pc' = "check" /\ UNCHANGED exc
            ELSE pc' = "crashed" /\ exc' = "ValueError"
       ELSE pc' = "resolve" /\ UNCHANGED exc
    /\ UNCHANGED << rk, cpu_count, existing, p, spawned, killed, firstCheck,
                    requests, sleeps, tries, ctr, connected, snakefile, checked,
                    calls, coresUsed >>
    /\ UNCHANGED extractVars
    /\ UNCHANGED scanVars

\* The first try block: the status is asserted to be "running" and only a
\* RequestException is caught; the handler of it starts Panoptes.
InitialCheck ==
    /\ pc = "check"
    /\ \E o \in Outcomes :
        /\ firstCheck' = o
        /\ IF o = "running"
           THEN pc' = "connect" /\ UNCHANGED << exc, p, spawned >>
           ELSE IF o = "RequestException"
           THEN /\ p' = [kind |-> "Popen",
                         port |-> IntOf(rk.wms_monitor[Len(rk.wms_monitor)])]
                /\ spawned' = spawned + 1
                /\ pc' = "connect"
                /\ UNCHANGED exc
           ELSE /\ exc' = "AssertionError"
                /\ pc' = "crashed"
                /\ UNCHANGED << p, spawned >>
    /\ UNCHANGED << rk, cpu_count, existing, killed, requests, sleeps, tries, ctr,
                    connected, snakefile, checked, calls, coresUsed >>
    /\ UNCHANGED extractVars
    /\ UNCHANGED scanVars

\* A plausible slip: the loop goes on after status "running".
ConnectAttemptNoBreak ==
    /\ pc = "connect"
    /\ tries < MaxTries
    /\ \E o \in Outcomes :
        /\ requests' = requests + 1
        /\ connected' = (connected \/ o = "running")
        /\ sleeps' = IF o = "running" THEN sleeps ELSE sleeps + 1
        /\ ctr' = IF o = "RequestException" THEN ctr + 1 ELSE ctr
        /\ tries' = tries + 1
        /\ pc' = IF tries + 1 = MaxTries THEN "resolve" ELSE "connect"
    /\ UNCHANGED << exc, rk, cpu_count, existing, p, spawned, killed, firstCheck,
                    snakefile, checked, calls, coresUsed >>
    /\ UNCHANGED extractVars
    /\ UNCHANGED scanVars

\* One iteration of `for tries in range(10)`: break on status "running",
\* sleep a second after a RequestException and after any other status.
ConnectAttempt ==
    /\ pc = "connect"
    /\ tries < MaxTries
    /\ \E o \in Outcomes :
        /\ requests' = requests + 1
        /\ IF o = "running"
           THEN /\ connected' = TRUE
                /\ pc' = "resolve"
                /\ UNCHANGED << sleeps, tries, ctr >>
           ELSE /\ sleeps' = sleeps + 1
                /\ ctr' = IF o = "RequestException" THEN ctr + 1 ELSE ctr
                /\ tries' = tries + 1
                /\ pc' = IF tries + 1 = MaxTries THEN "resolve" ELSE "connect"
                /\ UNCHANGED connected
    /\ UNCHANGED << exc, rk, cpu_count, existing, p, spawned, killed, firstCheck,
                    snakefile, checked, calls, coresUsed >>
    /\ UNCHANGED extractVars
    /\ UNCHANGED scanVars

\* The resolution of the Snakefile and assert snakefile.is_file().
ResolveSnakefile ==
    /\ pc = "resolve"
    /\ snakefile' = Resolve(rk.bgcflow_dir, rk.workflow)
    /\ IF snakefile' \in existing
       THEN checked' = TRUE /\ pc' = "run" /\ UNCHANGED exc
       ELSE exc' = "AssertionError" /\ pc' = "crashed" /\ UNCHANGED checked
    /\ UNCHANGED << rk, cpu_count, existing, p, spawned, killed, firstCheck,
                    requests, sleeps, tries, ctr, connected, calls, coresUsed >>
    /\ UNCHANGED extractVars
    /\ UNCHANGED scanVars

\* The core count is clamped and subprocess.call runs snakemake.
RunSnakemake ==
    /\ pc = "run"
    /\ coresUsed' = Cores(rk.cores, cpu_count)
    /\ calls' = calls + 1
    /\ pc' = "kill"
    /\ UNCHANGED << exc, rk, cpu_count, existing, p, spawned, killed, firstCheck,
                    requests, sleeps, tries, ctr, connected, snakefile, checked >>
    /\ UNCHANGED extractVars
    /\ UNCHANGED scanVars

\* if not type(p) == str: p.kill()
KillPanoptes ==
    /\ pc = "kill"
    /\ killed' = (p.kind # "str")
    /\ pc' = "done"
    /\ UNCHANGED << exc, rk, cpu_count, existing, p, spawned, firstCheck, requests,
                    sleeps, tries, ctr, connected, snakefile, checked, calls,
                    coresUsed >>
    /\ UNCHANGED extractVars
    /\ UNCHANGED scanVars

NextRun ==
    \/ Begin
    \/ InitialCheck
    \/ ConnectAttempt
    \/ ResolveSnakefile
    \/ RunSnakemake
    \/ KillPanoptes

SpecRun == InitRun /\ [][NextRun]_vars

\* The connect loop is over and nothing has run after it yet.
JustLeftLoop == rk.monitor /\ pc = "resolve"

\* C7: with monitoring on, the connect loop issues at most ten service-info
\* requests, sleeps once after every attempt that did not report "running",
\* stops at the first "running" answer without a further request, and after
\* ten attempts without one goes on to the Snakefile check with no exception
\* raised.
C7_BoundedPoll ==
    /\ requests <= 10
    /\ sleeps = requests - (IF connected THEN 1 ELSE 0)
    /\ sleeps = tries
    /\ connected => pc # "connect"
    /\ (pc = "connect") => (requests < 10 /\ exc = "none")
    /\ JustLeftLoop => /\ exc = "none"
                       /\ (connected \/ (requests = 10 /\ sleeps = 10))
    /\ (rk.monitor /\ calls = 1) => (connected \/ requests = 10)

\* C7 witness: ten attempts went by without a "running" answer and snakemake
\* was invoked all the same.
C7_Witness ==
    /\ rk.monitor /\ requests = 10 /\ sleeps = 10 /\ ~connected
    /\ calls = 1 /\ exc = "none"

\* C8: with monitoring on, an initial check that does not report "running"
\* (a failed request, or any other status) makes the wrapper start exactly
\* one Panoptes process on the port of the monitor address and enter the
\* connect loop; a "running" answer starts nothing; with monitoring off no
\* request is made and nothing is started.
C8_PanoptesStarted ==
    /\ (rk.monitor /\ firstCheck \in { "RequestException", "other" })
        => /\ spawned = 1
           /\ p.kind = "Popen"
           /\ p.port = IntOf(rk.wms_monitor[Len(rk.wms_monitor)])
           /\ (pc = "crashed" => snakefile # <<>>)
    /\ (rk.monitor /\ firstCheck = "running")
        => (spawned = 0 /\ (pc = "crashed" => snakefile # <<>>))
    /\ ~rk.monitor => (firstCheck = "none" /\ requests = 0 /\ spawned = 0)

\* C9: on every path of snakemake_wrapper a Panoptes process it started is
\* killed before the call ends, the missing Snakefile path included; the
\* kill comes only after snakemake has returned; a service that was running
\* before is never killed.
C9_MonitorCleanup ==
    /\ (pc \in { "done", "crashed" } /\ spawned > 0) => killed
    /\ killed => calls = 1
    /\ spawned = 0 => ~killed

\* C10: snakemake is invoked at most once and only after the resolved
\* Snakefile was found to be a file; a short workflow name X and its long
\* form workflow/X resolve to <bgcflow_dir>/workflow/X, anything else W to
\* <bgcflow_dir>/W; the core count passed is min(requested, CPU count).
C10_LaunchGuard ==
    /\ calls <= 1
    /\ calls = 1 => (checked /\ snakefile \in existing)
    /\ checked => snakefile \in existing
    /\ snakefile # <<>> =>
        /\ \A X \in ShortNames :
             rk.workflow \in { <<X>>, <<"workflow", X>> }
                => snakefile = rk.bgcflow_dir \o <<"workflow", X>>
        /\ (\A X \in ShortNames : rk.workflow \notin { <<X>>, <<"workflow", X>> })
                => snakefile = rk.bgcflow_dir \o rk.workflow
    /\ calls = 1 =>
        /\ coresUsed <= cpu_count
        /\ coresUsed <= rk.cores
        /\ (coresUsed = cpu_count \/ coresUsed = rk.cores)

\* C10 witness: snakemake ran on the short name BGC with more cores asked
\* for than the machine has.
C10_Witness ==
    /\ calls = 1
    /\ rk.workflow = <<"BGC">>
    /\ snakefile = <<"bgcflow", "workflow", "BGC">>
    /\ rk.cores > cpu_count
    /\ coresUsed = cpu_count

=============================================================================
